---- MODULE Spec2Model ----
(***************************************************************************)
(* Battery-constrained shortest path (backend/src/dijkstra.cpp) and the    *)
(* indexed binary min-heap it uses (backend/src/minheap.cpp), over the     *)
(* undirected weighted graph of backend/src/graph.cpp.                     *)
(*                                                                         *)
(* Three specifications share the variables:                               *)
(*   SpecHeap    a MinHeap object driven by arbitrary public calls;        *)
(*   Spec        one run of dijkstraWithBattery on a graph built by        *)
(*               Graph::addEdge calls, endpoints possibly absent;          *)
(*   SpecBudget  one run of dijkstraWithBattery on a larger family of      *)
(*               well-formed graphs, where the budget decides the result.  *)
(***************************************************************************)
EXTENDS Integers, Sequences, FiniteSets, TLC

(***************************************************************************)
(* Bounds of the model.                                                    *)
(***************************************************************************)
\* node ids offered to the MinHeap object of SpecHeap: 1..MaxHeapNode
MaxHeapNode == 4
\* distances offered to the MinHeap object of SpecHeap: 0..MaxDist
MaxDist == 1
\* Spec: the graph is built by at most MaxEdgeCalls calls of Graph::addEdge
MaxEdgeCalls == 3
\* Spec: node ids used in the calls and as endpoints
NodeIds == {1, 2, 3}
\* Spec: edge weights, budgets (initialBattery) and mileages offered
Weights == {0, 1, 2}
Budgets == {1, 2}
Mileages == {1, 2}
\* SpecBudget: graphs over the nodes 1..BudgetNodes with at most
\* MaxBudgetEdges undirected edges
BudgetNodes == 5
MaxBudgetEdges == 5
BudgetWeights == {0, 1}
BudgetBudgets == {1, 2, 3}
\* SpecOrder: graphs over the nodes 1..OrderNodes
OrderNodes == 6
\* SpecChain: the chain 1 - 2 - 3 with these edge weights, budgets, mileages
ChainWeights == {0, 5, 10, 25}
ChainBudgets == {1, 2, 3}
ChainMileages == {5, 10}
\* SpecGraph: node ids and edge weights offered to the Graph calls
GraphIds == {1, 2}
GraphWeights == {1, 2}
\* numeric_limits<int>::max(), the "infinite" distance
IntMax == 2147483647
\* values an int member of PathfindingResult may hold when the function
\* returns without having written it
UninitInt == {0, -858993460}

(***************************************************************************)
(* Maps (std::unordered_map<int,int>) are functions on their key set.      *)
(***************************************************************************)
EmptyMap == [k \in {} |-> 0]

MapSet(m, k, v) == [x \in (DOMAIN m) \cup {k} |-> IF x = k THEN v ELSE m[x]]

MapErase(m, k) == [x \in (DOMAIN m) \ {k} |-> m[x]]

(***************************************************************************)
(* MinHeap.  A heap object is a record                                     *)
(*   heap        : the vector<HeapNode>, element i of the code at i+1      *)
(*   nodeToIndex : nodeId -> 0-based index in heap                         *)
(*   threw       : "none", or the exception a call ended with              *)
(***************************************************************************)
HeapNode(id, dist) == [nodeId |-> id, distance |-> dist]

MinHeap == [heap |-> << >>, nodeToIndex |-> EmptyMap, threw |-> "none"]

\* heap[index] of the code (0-based)
At(H, index) == H.heap[index + 1]

size(H) == Len(H.heap)

isEmpty(H) == H.heap = << >>

contains(H, nodeId) == nodeId \in DOMAIN H.nodeToIndex

\* HeapNode::operator>
Greater(a, b) == a.distance > b.distance

\* swapNodes with the index map of the second slot left stale
swapNodes_oneIndex(H, index1, index2) ==
    IF index1 < 0 \/ index1 >= size(H) \/ index2 < 0 \/ index2 >= size(H)
    THEN [H EXCEPT !.threw = "out_of_range"]
    ELSE LET swapped == [H.heap EXCEPT ![index1 + 1] = H.heap[index2 + 1],
                                       ![index2 + 1] = H.heap[index1 + 1]]
         IN  [H EXCEPT !.heap = swapped,
                       !.nodeToIndex = MapSet(H.nodeToIndex, swapped[index1 + 1].nodeId, index1)]

swapNodes(H, index1, index2) ==
    IF index1 < 0 \/ index1 >= size(H) \/ index2 < 0 \/ index2 >= size(H)
    THEN [H EXCEPT !.threw = "out_of_range"]
    ELSE LET swapped == [H.heap EXCEPT ![index1 + 1] = H.heap[index2 + 1],
                                       ![index2 + 1] = H.heap[index1 + 1]]
             idx1 == MapSet(H.nodeToIndex, swapped[index1 + 1].nodeId, index1)
             idx2 == MapSet(idx1, swapped[index2 + 1].nodeId, index2)
         IN  [H EXCEPT !.heap = swapped, !.nodeToIndex = idx2]

\* bubbleUp that swaps with the parent once and stops there
bubbleUp_once(H, index) ==
    IF index = 0 THEN H
    ELSE LET parentIndex == (index - 1) \div 2
         IN  IF Greater(At(H, index), At(H, parentIndex)) THEN H
             ELSE swapNodes(H, index, parentIndex)

RECURSIVE bubbleUp(_, _)
bubbleUp(H, index) ==
    IF index = 0 THEN H
    ELSE LET parentIndex == (index - 1) \div 2
         IN  IF Greater(At(H, index), At(H, parentIndex)) THEN H
             ELSE LET S == swapNodes(H, index, parentIndex)
                  IN  IF S.threw # "none" THEN S ELSE bubbleUp(S, parentIndex)

\* bubbleDown that looks at the left child only
RECURSIVE bubbleDown_leftOnly(_, _)
bubbleDown_leftOnly(H, index) ==
    LET leftChild == 2 * index + 1
        smallest == IF leftChild < size(H) /\ ~Greater(At(H, leftChild), At(H, index))
                    THEN leftChild ELSE index
    IN  IF smallest # index
        THEN LET S == swapNodes(H, index, smallest)
             IN  IF S.threw # "none" THEN S ELSE bubbleDown_leftOnly(S, smallest)
        ELSE H

RECURSIVE bubbleDown(_, _)
bubbleDown(H, index) ==
    LET leftChild == 2 * index + 1
        rightChild == 2 * index + 2
        smallest1 == IF leftChild < size(H) /\ ~Greater(At(H, leftChild), At(H, index))
                     THEN leftChild ELSE index
        smallest == IF rightChild < size(H) /\ ~Greater(At(H, rightChild), At(H, smallest1))
                    THEN rightChild ELSE smallest1
    IN  IF smallest # index
        THEN LET S == swapNodes(H, index, smallest)
             IN  IF S.threw # "none" THEN S ELSE bubbleDown(S, smallest)
        ELSE H

\* decreaseKey that stores the new distance whatever the old one is
decreaseKey_noGuard(H, nodeId, newDistance) ==
    IF ~contains(H, nodeId) THEN [H EXCEPT !.threw = "invalid_argument"]
    ELSE LET index == H.nodeToIndex[nodeId]
         IN  bubbleUp([H EXCEPT !.heap[index + 1].distance = newDistance], index)

decreaseKey(H, nodeId, newDistance) ==
    IF ~contains(H, nodeId) THEN [H EXCEPT !.threw = "invalid_argument"]
    ELSE LET index == H.nodeToIndex[nodeId]
         IN  IF newDistance >= At(H, index).distance THEN H
             ELSE bubbleUp([H EXCEPT !.heap[index + 1].distance = newDistance], index)

\* addNode without the contains() test
addNode_noContains(H, nodeId, distance) ==
    LET pushed == Append(H.heap, HeapNode(nodeId, distance))
        newIndex == Len(pushed) - 1
    IN  bubbleUp([H EXCEPT !.heap = pushed,
                           !.nodeToIndex = MapSet(H.nodeToIndex, nodeId, newIndex)],
                 newIndex)

addNode(H, nodeId, distance) ==
    IF contains(H, nodeId) THEN decreaseKey(H, nodeId, distance)
    ELSE LET pushed == Append(H.heap, HeapNode(nodeId, distance))
             newIndex == Len(pushed) - 1
         IN  bubbleUp([H EXCEPT !.heap = pushed,
                                !.nodeToIndex = MapSet(H.nodeToIndex, nodeId, newIndex)],
                      newIndex)

\* the value deleteRoot returns; NoNode when it throws
NoNode == HeapNode(-1, -1)

deleteRootValue(H) == IF isEmpty(H) THEN NoNode ELSE At(H, 0)

\* deleteRoot that pops an empty vector unchecked and reports nothing
deleteRoot_noThrow(H) ==
    IF isEmpty(H) THEN [H EXCEPT !.nodeToIndex = MapSet(H.nodeToIndex, 0, 0)]
    ELSE IF size(H) = 1 THEN [H EXCEPT !.heap = << >>, !.nodeToIndex = EmptyMap]
    ELSE LET root == At(H, 0)
             last == H.heap[Len(H.heap)]
             moved == [SubSeq(H.heap, 1, Len(H.heap) - 1) EXCEPT ![1] = last]
             erased == MapErase(H.nodeToIndex, root.nodeId)
         IN  bubbleDown([H EXCEPT !.heap = moved,
                                  !.nodeToIndex = MapSet(erased, last.nodeId, 0)], 0)

deleteRoot(H) ==
    IF isEmpty(H) THEN [H EXCEPT !.threw = "runtime_error"]
    ELSE IF size(H) = 1 THEN [H EXCEPT !.heap = << >>, !.nodeToIndex = EmptyMap]
    ELSE LET root == At(H, 0)
             last == H.heap[Len(H.heap)]
             moved == [SubSeq(H.heap, 1, Len(H.heap) - 1) EXCEPT ![1] = last]
             erased == MapErase(H.nodeToIndex, root.nodeId)
         IN  bubbleDown([H EXCEPT !.heap = moved,
                                  !.nodeToIndex = MapSet(erased, last.nodeId, 0)], 0)

clear(H) == [H EXCEPT !.heap = << >>, !.nodeToIndex = EmptyMap]

\* unordered_map::operator[] used as a read: a missing key reads as 0
MapGet(m, k) == IF k \in DOMAIN m THEN m[k] ELSE 0

(***************************************************************************)
(* Graph.  A graph is a record                                             *)
(*   nodes         : the vector<Node>, as the sequence of node ids (the    *)
(*                   positions x, y play no part in the search)            *)
(*   adjacencyList : node id -> sequence of <<neighbor, weight>>           *)
(*   edgeWeights   : from -> (to -> weight)                                *)
(***************************************************************************)
Graph == [nodes |-> << >>, adjacencyList |-> EmptyMap, edgeWeights |-> EmptyMap]

hasNode(g, id) == \E i \in 1..Len(g.nodes) : g.nodes[i] = id

\* addNode without the search for an existing node
Graph_addNode_noSearch(g, id) ==
    [g EXCEPT !.nodes = Append(g.nodes, id),
              !.adjacencyList = MapSet(g.adjacencyList, id, << >>)]

Graph_addNode(g, id) ==
    IF hasNode(g, id) THEN g
    ELSE [g EXCEPT !.nodes = Append(g.nodes, id),
                   !.adjacencyList = MapSet(g.adjacencyList, id, << >>)]

\* edgeWeights[from][to] = weight
SetEdgeWeight(ew, from, to, weight) ==
    MapSet(ew, from, MapSet(IF from \in DOMAIN ew THEN ew[from] ELSE EmptyMap, to, weight))

Graph_addEdge(g, from, to, weight) ==
    LET g2 == Graph_addNode(Graph_addNode(g, from), to)
        nbrs == g2.adjacencyList[from]
        hits == {i \in 1..Len(nbrs) : nbrs[i][1] = to}
    IN  IF hits # {}
        THEN LET first == CHOOSE i \in hits : \A j \in hits : i <= j
             IN  [g2 EXCEPT !.adjacencyList[from][first] = <<to, weight>>,
                            !.edgeWeights = SetEdgeWeight(g2.edgeWeights, from, to, weight)]
        ELSE LET a1 == [g2.adjacencyList EXCEPT ![from] = Append(@, <<to, weight>>)]
                 a2 == [a1 EXCEPT ![to] = Append(@, <<from, weight>>)]
             IN  [g2 EXCEPT !.adjacencyList = a2,
                            !.edgeWeights = SetEdgeWeight(SetEdgeWeight(g2.edgeWeights,
                                                from, to, weight), to, from, weight)]

\* vector::erase of the first entry for id, if there is one
EraseFirst(neighbors, id) ==
    LET hits == {i \in 1..Len(neighbors) : neighbors[i][1] = id}
    IN  IF hits = {} THEN neighbors
        ELSE LET first == CHOOSE i \in hits : \A j \in hits : i <= j
             IN  [i \in 1..(Len(neighbors) - 1) |->
                     IF i < first THEN neighbors[i] ELSE neighbors[i + 1]]

\* m[key] of a std::unordered_map, which inserts the value dflt for a key
\* that is missing
Touch(m, key, dflt) == IF key \in DOMAIN m THEN m ELSE MapSet(m, key, dflt)

Graph_removeEdge(g, from, to) ==
    LET a1 == Touch(g.adjacencyList, from, << >>)
        a2 == [a1 EXCEPT ![from] = EraseFirst(@, to)]
        a3 == Touch(a2, to, << >>)
        a4 == [a3 EXCEPT ![to] = EraseFirst(@, from)]
        e1 == Touch(g.edgeWeights, from, EmptyMap)
        e2 == [e1 EXCEPT ![from] = MapErase(@, to)]
        e3 == Touch(e2, to, EmptyMap)
        e4 == [e3 EXCEPT ![to] = MapErase(@, from)]
    IN  [g EXCEPT !.adjacencyList = a4, !.edgeWeights = e4]

\* for an existing node only x and y change; a missing one is created
Graph_setNodePosition(g, nodeId) ==
    IF hasNode(g, nodeId) THEN g ELSE Graph_addNode(g, nodeId)

\* Graph::getNode throws out_of_range for an id that is not in nodes
getNodeThrows(g, nodeId) == ~hasNode(g, nodeId)

getNodeCount(g) == Len(g.nodes)

getNeighbors(g, node) ==
    IF node \in DOMAIN g.adjacencyList THEN g.adjacencyList[node] ELSE << >>

(***************************************************************************)
(* dijkstraWithBattery.  A run is a record of the function's locals:       *)
(*   pc          "loop" (at the while test), "reconstruct" (after the      *)
(*               loop), "done" (returned), "threw" (left by an exception), *)
(*               "diverged" (the walk along previous does not end)         *)
(*   H           minHeap                                                   *)
(*   distances, batteryUsed, previous   the three maps                     *)
(*   op, argNode, argDist, ret          the last MinHeap call made         *)
(*   extracted   the values current has taken, in order                    *)
(*   result      the PathfindingResult; totalsSet tells whether            *)
(*               totalDistance and totalBatteryUsed were written           *)
(***************************************************************************)
PathfindingResult(path, dist, batt, success, message) ==
    [path |-> path, totalDistance |-> dist, totalBatteryUsed |-> batt,
     success |-> success, message |-> message]

NoResult == PathfindingResult(<< >>, 0, 0, FALSE, "")

\* C++ integer division truncates toward zero
TruncDiv(a, b) == IF a >= 0 THEN a \div b ELSE -((-a) \div b)

\* batteryConsumption without the minimum of 1
batteryConsumption_noMinimum(edgeWeight, mileage) == TruncDiv(edgeWeight, mileage)

batteryConsumption(edgeWeight, mileage) ==
    LET c == TruncDiv(edgeWeight, mileage) IN IF c < 1 THEN 1 ELSE c

\* begin that checks only that source exists
begin_sourceOnly(g, source, destination) ==
    LET blank == [pc |-> "done", H |-> MinHeap, distances |-> EmptyMap,
                  batteryUsed |-> EmptyMap, previous |-> EmptyMap,
                  op |-> "none", argNode |-> 0, argDist |-> 0, ret |-> NoNode,
                  extracted |-> << >>,
                  totalsSet |-> FALSE, result |-> NoResult]
    IN  IF source = destination
        THEN [blank EXCEPT !.totalsSet = TRUE,
                           !.result = PathfindingResult(<<source>>, 0, 0, TRUE,
                                          "Source and destination are the same")]
        ELSE IF getNodeThrows(g, source)
        THEN [blank EXCEPT !.result.message = "Invalid source or destination node"]
        ELSE IF getNodeCount(g) = 0
        THEN [blank EXCEPT !.result.message = "Graph is empty"]
        ELSE LET ids == {g.nodes[i] : i \in 1..Len(g.nodes)}
                 inf == [n \in ids |-> IntMax]
             IN  [blank EXCEPT !.pc = "loop",
                               !.distances = MapSet(inf, source, 0),
                               !.batteryUsed = MapSet(inf, source, 0),
                               !.previous = [n \in ids |-> -1],
                               !.H = addNode(MinHeap, source, 0),
                               !.op = "addNode", !.argNode = source]

\* begin without the early return for source = destination
begin_noTrivialReturn(g, source, destination) ==
    LET blank == [pc |-> "done", H |-> MinHeap, distances |-> EmptyMap,
                  batteryUsed |-> EmptyMap, previous |-> EmptyMap,
                  op |-> "none", argNode |-> 0, argDist |-> 0, ret |-> NoNode,
                  extracted |-> << >>,
                  totalsSet |-> FALSE, result |-> NoResult]
    IN  IF getNodeThrows(g, source) \/ getNodeThrows(g, destination)
        THEN [blank EXCEPT !.result.message = "Invalid source or destination node"]
        ELSE IF getNodeCount(g) = 0
        THEN [blank EXCEPT !.result.message = "Graph is empty"]
        ELSE LET ids == {g.nodes[i] : i \in 1..Len(g.nodes)}
                 inf == [n \in ids |-> IntMax]
             IN  [blank EXCEPT !.pc = "loop",
                               !.distances = MapSet(inf, source, 0),
                               !.batteryUsed = MapSet(inf, source, 0),
                               !.previous = [n \in ids |-> -1],
                               !.H = addNode(MinHeap, source, 0),
                               !.op = "addNode", !.argNode = source]

\* lines 23-69: the checks and the initialisation
begin(g, source, destination) ==
    LET blank == [pc |-> "done", H |-> MinHeap, distances |-> EmptyMap,
                  batteryUsed |-> EmptyMap, previous |-> EmptyMap,
                  op |-> "none", argNode |-> 0, argDist |-> 0, ret |-> NoNode,
                  extracted |-> << >>,
                  totalsSet |-> FALSE, result |-> NoResult]
    IN  IF source = destination
        THEN [blank EXCEPT !.totalsSet = TRUE,
                           !.result = PathfindingResult(<<source>>, 0, 0, TRUE,
                                          "Source and destination are the same")]
        ELSE IF getNodeThrows(g, source) \/ getNodeThrows(g, destination)
        THEN [blank EXCEPT !.result.message = "Invalid source or destination node"]
        ELSE IF getNodeCount(g) = 0
        THEN [blank EXCEPT !.result.message = "Graph is empty"]
        ELSE LET ids == {g.nodes[i] : i \in 1..Len(g.nodes)}
                 inf == [n \in ids |-> IntMax]
             IN  [blank EXCEPT !.pc = "loop",
                               !.distances = MapSet(inf, source, 0),
                               !.batteryUsed = MapSet(inf, source, 0),
                               !.previous = [n \in ids |-> -1],
                               !.H = addNode(MinHeap, source, 0),
                               !.op = "addNode", !.argNode = source]

\* relax without the test against initialBattery
relax_noBudgetTest(R, currentNode, neighbor, initialBattery, mileage) ==
    LET neighborNode == neighbor[1]
        edgeWeight == neighbor[2]
        newBatteryUsed == MapGet(R.batteryUsed, currentNode)
                            + batteryConsumption(edgeWeight, mileage)
        newDistance == MapGet(R.distances, currentNode) + edgeWeight
    IN  IF newDistance < MapGet(R.distances, neighborNode)
        THEN [R EXCEPT !.distances = MapSet(R.distances, neighborNode, newDistance),
                       !.batteryUsed = MapSet(R.batteryUsed, neighborNode, newBatteryUsed),
                       !.previous = MapSet(R.previous, neighborNode, currentNode),
                       !.H = IF contains(R.H, neighborNode)
                             THEN decreaseKey(R.H, neighborNode, newDistance)
                             ELSE addNode(R.H, neighborNode, newDistance),
                       !.op = IF contains(R.H, neighborNode) THEN "decreaseKey" ELSE "addNode",
                       !.argNode = neighborNode, !.argDist = newDistance, !.ret = NoNode]
        ELSE R

\* relax that refuses a neighbor reached with exactly initialBattery used
relax_strictBudget(R, currentNode, neighbor, initialBattery, mileage) ==
    LET neighborNode == neighbor[1]
        edgeWeight == neighbor[2]
        newBatteryUsed == MapGet(R.batteryUsed, currentNode)
                            + batteryConsumption(edgeWeight, mileage)
        newDistance == MapGet(R.distances, currentNode) + edgeWeight
    IN  IF newBatteryUsed < initialBattery /\ newDistance < MapGet(R.distances, neighborNode)
        THEN [R EXCEPT !.distances = MapSet(R.distances, neighborNode, newDistance),
                       !.batteryUsed = MapSet(R.batteryUsed, neighborNode, newBatteryUsed),
                       !.previous = MapSet(R.previous, neighborNode, currentNode),
                       !.H = IF contains(R.H, neighborNode)
                             THEN decreaseKey(R.H, neighborNode, newDistance)
                             ELSE addNode(R.H, neighborNode, newDistance),
                       !.op = IF contains(R.H, neighborNode) THEN "decreaseKey" ELSE "addNode",
                       !.argNode = neighborNode, !.argDist = newDistance, !.ret = NoNode]
        ELSE R

\* relax that also takes a neighbor at an equal distance
relax_orEqual(R, currentNode, neighbor, initialBattery, mileage) ==
    LET neighborNode == neighbor[1]
        edgeWeight == neighbor[2]
        newBatteryUsed == MapGet(R.batteryUsed, currentNode)
                            + batteryConsumption(edgeWeight, mileage)
        newDistance == MapGet(R.distances, currentNode) + edgeWeight
    IN  IF newBatteryUsed <= initialBattery /\ newDistance <= MapGet(R.distances, neighborNode)
        THEN [R EXCEPT !.distances = MapSet(R.distances, neighborNode, newDistance),
                       !.batteryUsed = MapSet(R.batteryUsed, neighborNode, newBatteryUsed),
                       !.previous = MapSet(R.previous, neighborNode, currentNode),
                       !.H = IF contains(R.H, neighborNode)
                             THEN decreaseKey(R.H, neighborNode, newDistance)
                             ELSE addNode(R.H, neighborNode, newDistance),
                       !.op = IF contains(R.H, neighborNode) THEN "decreaseKey" ELSE "addNode",
                       !.argNode = neighborNode, !.argDist = newDistance, !.ret = NoNode]
        ELSE R

\* relax without the test against the neighbor's distance
relax_noDistanceTest(R, currentNode, neighbor, initialBattery, mileage) ==
    LET neighborNode == neighbor[1]
        edgeWeight == neighbor[2]
        newBatteryUsed == MapGet(R.batteryUsed, currentNode)
                            + batteryConsumption(edgeWeight, mileage)
        newDistance == MapGet(R.distances, currentNode) + edgeWeight
    IN  IF newBatteryUsed <= initialBattery
        THEN [R EXCEPT !.distances = MapSet(R.distances, neighborNode, newDistance),
                       !.batteryUsed = MapSet(R.batteryUsed, neighborNode, newBatteryUsed),
                       !.previous = MapSet(R.previous, neighborNode, currentNode),
                       !.H = IF contains(R.H, neighborNode)
                             THEN decreaseKey(R.H, neighborNode, newDistance)
                             ELSE addNode(R.H, neighborNode, newDistance),
                       !.op = IF contains(R.H, neighborNode) THEN "decreaseKey" ELSE "addNode",
                       !.argNode = neighborNode, !.argDist = newDistance, !.ret = NoNode]
        ELSE R

\* relax that calls decreaseKey without asking contains
relax_alwaysDecreaseKey(R, currentNode, neighbor, initialBattery, mileage) ==
    LET neighborNode == neighbor[1]
        edgeWeight == neighbor[2]
        newBatteryUsed == MapGet(R.batteryUsed, currentNode)
                            + batteryConsumption(edgeWeight, mileage)
        newDistance == MapGet(R.distances, currentNode) + edgeWeight
    IN  IF newBatteryUsed <= initialBattery /\ newDistance < MapGet(R.distances, neighborNode)
        THEN [R EXCEPT !.distances = MapSet(R.distances, neighborNode, newDistance),
                       !.batteryUsed = MapSet(R.batteryUsed, neighborNode, newBatteryUsed),
                       !.previous = MapSet(R.previous, neighborNode, currentNode),
                       !.H = decreaseKey(R.H, neighborNode, newDistance),
                       !.op = "decreaseKey",
                       !.argNode = neighborNode, !.argDist = newDistance, !.ret = NoNode]
        ELSE R

\* relax that labels a neighbor only the first time it is reached
relax_firstLabel(R, currentNode, neighbor, initialBattery, mileage) ==
    LET neighborNode == neighbor[1]
        edgeWeight == neighbor[2]
        newBatteryUsed == MapGet(R.batteryUsed, currentNode)
                            + batteryConsumption(edgeWeight, mileage)
        newDistance == MapGet(R.distances, currentNode) + edgeWeight
    IN  IF newBatteryUsed <= initialBattery /\ MapGet(R.distances, neighborNode) = IntMax
        THEN [R EXCEPT !.distances = MapSet(R.distances, neighborNode, newDistance),
                       !.batteryUsed = MapSet(R.batteryUsed, neighborNode, newBatteryUsed),
                       !.previous = MapSet(R.previous, neighborNode, currentNode),
                       !.H = IF contains(R.H, neighborNode)
                             THEN decreaseKey(R.H, neighborNode, newDistance)
                             ELSE addNode(R.H, neighborNode, newDistance),
                       !.op = IF contains(R.H, neighborNode) THEN "decreaseKey" ELSE "addNode",
                       !.argNode = neighborNode, !.argDist = newDistance, !.ret = NoNode]
        ELSE R

\* lines 83-105: one neighbor of currentNode
relax(R, currentNode, neighbor, initialBattery, mileage) ==
    LET neighborNode == neighbor[1]
        edgeWeight == neighbor[2]
        newBatteryUsed == MapGet(R.batteryUsed, currentNode)
                            + batteryConsumption(edgeWeight, mileage)
        newDistance == MapGet(R.distances, currentNode) + edgeWeight
    IN  IF newBatteryUsed <= initialBattery /\ newDistance < MapGet(R.distances, neighborNode)
        THEN [R EXCEPT !.distances = MapSet(R.distances, neighborNode, newDistance),
                       !.batteryUsed = MapSet(R.batteryUsed, neighborNode, newBatteryUsed),
                       !.previous = MapSet(R.previous, neighborNode, currentNode),
                       !.H = IF contains(R.H, neighborNode)
                             THEN decreaseKey(R.H, neighborNode, newDistance)
                             ELSE addNode(R.H, neighborNode, newDistance),
                       !.op = IF contains(R.H, neighborNode) THEN "decreaseKey" ELSE "addNode",
                       !.argNode = neighborNode, !.argDist = newDistance, !.ret = NoNode]
        ELSE R

\* lines 82-106: the for loop over the neighbors, from the i-th on; an
\* exception of a MinHeap call ends it
RECURSIVE relaxAll(_, _, _, _, _, _)
relaxAll(R, currentNode, neighbors, i, initialBattery, mileage) ==
    IF i > Len(neighbors) \/ R.H.threw # "none" THEN R
    ELSE relaxAll(relax(R, currentNode, neighbors[i], initialBattery, mileage),
                  currentNode, neighbors, i + 1, initialBattery, mileage)

\* iteration that also stops once destination is in the heap, before it is
\* extracted
iteration_breakOnSight(R, g, destination, initialBattery, mileage) ==
    IF isEmpty(R.H) THEN [R EXCEPT !.pc = "reconstruct"]
    ELSE LET current == deleteRootValue(R.H)
             R1 == [R EXCEPT !.H = deleteRoot(R.H), !.op = "deleteRoot",
                             !.argNode = 0, !.argDist = 0, !.ret = current,
                             !.extracted = Append(R.extracted, current)]
         IN  IF R1.H.threw # "none" THEN [R1 EXCEPT !.pc = "threw"]
             ELSE IF current.nodeId = destination THEN [R1 EXCEPT !.pc = "reconstruct"]
             ELSE LET R2 == relaxAll(R1, current.nodeId, getNeighbors(g, current.nodeId),
                                     1, initialBattery, mileage)
                  IN  IF R2.H.threw # "none" THEN [R2 EXCEPT !.pc = "threw"]
                      ELSE IF contains(R2.H, destination) THEN [R2 EXCEPT !.pc = "reconstruct"]
                      ELSE R2

\* lines 72-107: the while test and one pass of the loop body
iteration(R, g, destination, initialBattery, mileage) ==
    IF isEmpty(R.H) THEN [R EXCEPT !.pc = "reconstruct"]
    ELSE LET current == deleteRootValue(R.H)
             R1 == [R EXCEPT !.H = deleteRoot(R.H), !.op = "deleteRoot",
                             !.argNode = 0, !.argDist = 0, !.ret = current,
                             !.extracted = Append(R.extracted, current)]
         IN  IF R1.H.threw # "none" THEN [R1 EXCEPT !.pc = "threw"]
             ELSE IF current.nodeId = destination THEN [R1 EXCEPT !.pc = "reconstruct"]
             ELSE LET R2 == relaxAll(R1, current.nodeId, getNeighbors(g, current.nodeId),
                                     1, initialBattery, mileage)
                  IN  IF R2.H.threw # "none" THEN [R2 EXCEPT !.pc = "threw"] ELSE R2

\* walk without the final reverse: destination first
RECURSIVE walk_notReversed(_, _, _)
walk_notReversed(previous, current, fuel) ==
    IF current = -1 THEN << >>
    ELSE IF fuel = 0 THEN <<-1>>
    ELSE <<current>> \o walk_notReversed(previous, MapGet(previous, current), fuel - 1)

\* lines 117-122: the walk along previous from destination until -1, then
\* reversed; a walk that has not met -1 after fuel nodes never ends in the
\* code and is cut here, marked by a leading -1
RECURSIVE walk(_, _, _)
walk(previous, current, fuel) ==
    IF current = -1 THEN << >>
    ELSE IF fuel = 0 THEN <<-1>>
    ELSE Append(walk(previous, MapGet(previous, current), fuel - 1), current)

\* lines 109-130: the result after the loop
reconstruct(R, destination) ==
    IF MapGet(R.distances, destination) = IntMax
    THEN [R EXCEPT !.pc = "done",
                   !.result.message = "No path exists within battery constraints"]
    ELSE LET path == walk(R.previous, destination, Cardinality(DOMAIN R.previous) + 1)
         IN  IF path # << >> /\ path[1] = -1 THEN [R EXCEPT !.pc = "diverged"]
             ELSE [R EXCEPT !.pc = "done", !.totalsSet = TRUE,
                            !.result = PathfindingResult(path,
                                           MapGet(R.distances, destination),
                                           MapGet(R.batteryUsed, destination),
                                           TRUE, "Path found successfully")]

RECURSIVE runLoop(_, _, _, _, _)
runLoop(R, g, destination, initialBattery, mileage) ==
    IF R.pc # "loop" THEN R
    ELSE runLoop(iteration(R, g, destination, initialBattery, mileage),
                 g, destination, initialBattery, mileage)

\* the whole call, as the record it ends in
dijkstraWithBattery(g, source, destination, initialBattery, mileage) ==
    LET R == runLoop(begin(g, source, destination), g, destination, initialBattery, mileage)
    IN  IF R.pc = "reconstruct" THEN reconstruct(R, destination) ELSE R

(***************************************************************************)
(* State.                                                                  *)
(*   heap, nodeToIndex  the fields of the MinHeap object (in a run of      *)
(*                      dijkstraWithBattery: of its local minHeap)         *)
(*   op, argNode, argDist  the last public MinHeap call and its arguments  *)
(*   ret                the HeapNode the last deleteRoot returned          *)
(*   err                the exception the last MinHeap call ended with     *)
(*   graph, source, destination, initialBattery, mileage                   *)
(*                      the arguments of dijkstraWithBattery               *)
(*   pc                 where the run is: "idle" (no run), "start", "loop",*)
(*                      "reconstruct", "done", "threw", "diverged"         *)
(*   distances, batteryUsed, previous   the maps of the run                *)
(*   extracted          the HeapNodes the loop has taken off the heap      *)
(*   result             the PathfindingResult returned                     *)
(*   earlier            the results of the earlier calls with these        *)
(*                      arguments, in order                                *)
(***************************************************************************)
VARIABLES heap, nodeToIndex, op, argNode, argDist, ret, err,
          graph, source, destination, initialBattery, mileage,
          pc, distances, batteryUsed, previous, extracted, result, earlier

heapVars == <<heap, nodeToIndex, op, argNode, argDist, ret, err>>

runVars == <<graph, source, destination, initialBattery, mileage,
             pc, distances, batteryUsed, previous, extracted, result, earlier>>

vars == <<heap, nodeToIndex, op, argNode, argDist, ret, err,
          graph, source, destination, initialBattery, mileage,
          pc, distances, batteryUsed, previous, extracted, result, earlier>>

\* the MinHeap object of the current state
Obj == [heap |-> heap, nodeToIndex |-> nodeToIndex, threw |-> "none"]

HeapNodeIds == 1..MaxHeapNode

Dists == 0..MaxDist

\* a fresh MinHeap, no call made yet
NewHeap ==
    /\ heap = << >>
    /\ nodeToIndex = EmptyMap
    /\ op = "none"
    /\ argNode = 0
    /\ argDist = 0
    /\ ret = NoNode
    /\ err = "none"

HeapInit ==
    /\ NewHeap
    /\ graph = Graph
    /\ source = 0 /\ destination = 0 /\ initialBattery = 0 /\ mileage = 0
    /\ pc = "idle"
    /\ distances = EmptyMap /\ batteryUsed = EmptyMap /\ previous = EmptyMap
    /\ extracted = << >>
    /\ result = NoResult
    /\ earlier = << >>

\* the object after a call that returned R (an exception leaves what the
\* call had written so far)
Store(R) ==
    /\ heap' = R.heap
    /\ nodeToIndex' = R.nodeToIndex
    /\ err' = R.threw

AddNode(n, d) ==
    /\ pc = "idle"
    /\ Store(addNode(Obj, n, d))
    /\ op' = "addNode" /\ argNode' = n /\ argDist' = d /\ ret' = NoNode
    /\ UNCHANGED runVars

DecreaseKey(n, d) ==
    /\ pc = "idle"
    /\ Store(decreaseKey(Obj, n, d))
    /\ op' = "decreaseKey" /\ argNode' = n /\ argDist' = d /\ ret' = NoNode
    /\ UNCHANGED runVars

DeleteRoot ==
    /\ pc = "idle"
    /\ Store(deleteRoot(Obj))
    /\ op' = "deleteRoot" /\ argNode' = 0 /\ argDist' = 0
    /\ ret' = deleteRootValue(Obj)
    /\ UNCHANGED runVars

Clear ==
    /\ pc = "idle"
    /\ Store(clear(Obj))
    /\ op' = "clear" /\ argNode' = 0 /\ argDist' = 0 /\ ret' = NoNode
    /\ UNCHANGED runVars

HeapNext ==
    \/ \E n \in HeapNodeIds, d \in Dists : AddNode(n, d)
    \/ \E n \in HeapNodeIds, d \in Dists : DecreaseKey(n, d)
    \/ DeleteRoot
    \/ Clear

SpecHeap == HeapInit /\ [][HeapNext]_vars

(***************************************************************************)
(* One run of dijkstraWithBattery, one action per stretch of the function. *)
(***************************************************************************)
\* the locals of the run in the current state
Run == [pc |-> pc, H |-> [heap |-> heap, nodeToIndex |-> nodeToIndex, threw |-> err],
        distances |-> distances, batteryUsed |-> batteryUsed, previous |-> previous,
        op |-> op, argNode |-> argNode, argDist |-> argDist, ret |-> ret,
        extracted |-> extracted,
        totalsSet |-> FALSE, result |-> result]

\* the state after the stretch that ended in R; a result returned without
\* its totals written holds whatever the two ints held
StoreRun(R) ==
    /\ pc' = R.pc
    /\ heap' = R.H.heap /\ nodeToIndex' = R.H.nodeToIndex /\ err' = R.H.threw
    /\ distances' = R.distances /\ batteryUsed' = R.batteryUsed /\ previous' = R.previous
    /\ op' = R.op /\ argNode' = R.argNode /\ argDist' = R.argDist /\ ret' = R.ret
    /\ extracted' = R.extracted
    /\ IF R.pc = "done" /\ ~R.totalsSet
       THEN \E td \in UninitInt, tb \in UninitInt :
               result' = [R.result EXCEPT !.totalDistance = td, !.totalBatteryUsed = tb]
       ELSE result' = R.result
    /\ UNCHANGED <<graph, source, destination, initialBattery, mileage, earlier>>

\* lines 22-69: entry, the checks, the initialisation
Begin ==
    /\ pc = "start"
    /\ StoreRun(begin(graph, source, destination))

\* lines 72-107: the loop is entered with a non-empty heap
Iterate ==
    /\ pc = "loop"
    /\ ~isEmpty(Obj)
    /\ StoreRun(iteration(Run, graph, destination, initialBattery, mileage))

\* line 72: the heap is empty, the loop ends
LoopExit ==
    /\ pc = "loop"
    /\ isEmpty(Obj)
    /\ StoreRun(iteration(Run, graph, destination, initialBattery, mileage))

\* lines 109-130
Reconstruct ==
    /\ pc = "reconstruct"
    /\ StoreRun(reconstruct(Run, destination))

Next ==
    \/ Begin
    \/ Iterate
    \/ LoopExit
    \/ Reconstruct

\* the calls of Graph::addEdge that build the graph of a run
EdgeCalls == {c \in NodeIds \X NodeIds \X Weights : c[1] <= c[2]}

EdgeCallSeqs == UNION {[1..k -> EdgeCalls] : k \in 0..MaxEdgeCalls}

RECURSIVE BuildGraph(_, _)
BuildGraph(calls, k) ==
    IF k = 0 THEN Graph
    ELSE Graph_addEdge(BuildGraph(calls, k - 1), calls[k][1], calls[k][2], calls[k][3])

\* main(): a graph read from file, endpoints, battery > 0 and mileage > 0
Init ==
    /\ NewHeap
    /\ graph \in {BuildGraph(calls, Len(calls)) : calls \in EdgeCallSeqs}
    /\ source \in NodeIds
    /\ destination \in NodeIds
    /\ initialBattery \in Budgets
    /\ mileage \in Mileages
    /\ pc = "start"
    /\ distances = EmptyMap /\ batteryUsed = EmptyMap /\ previous = EmptyMap
    /\ extracted = << >>
    /\ result = NoResult
    /\ earlier = << >>

Spec == Init /\ [][Next]_vars

\* the directed entries <<from, to, weight>> of the neighbor lists
Entries(g) ==
    UNION {{<<u, g.adjacencyList[u][i][1], g.adjacencyList[u][i][2]>> :
                i \in 1..Len(g.adjacencyList[u])} : u \in DOMAIN g.adjacencyList}

\* the battery an undirected edge {u, v} costs at mileage m: the largest
\* batteryConsumption among its entries (the two sides of an edge differ
\* after addEdge has overwritten one of them)
EdgeBattery(g, u, v, m) ==
    LET C == {batteryConsumption(e[3], m) :
                 e \in {f \in Entries(g) : {f[1], f[2]} = {u, v}}}
    IN  CHOOSE c \in C : \A x \in C : x <= c

RECURSIVE AllEdgesBattery(_, _, _)
AllEdgesBattery(g, pairs, m) ==
    IF pairs = {} THEN 0
    ELSE LET p == CHOOSE q \in pairs : TRUE
         IN  EdgeBattery(g, p[1], p[2], m) + AllEdgesBattery(g, pairs \ {p}, m)

\* a battery that pays for every edge of the graph at once (main asks for a
\* battery > 0)
AmpleBattery(g, m) ==
    LET pairs == {<<e[1], e[2]>> : e \in {f \in Entries(g) : f[1] <= f[2]}}
        all == AllEdgesBattery(g, pairs, m)
    IN  IF all < 1 THEN 1 ELSE all

\* main(): as Init, with a battery of AmpleBattery
InitAmple ==
    /\ NewHeap
    /\ graph \in {BuildGraph(calls, Len(calls)) : calls \in EdgeCallSeqs}
    /\ source \in NodeIds
    /\ destination \in NodeIds
    /\ mileage \in Mileages
    /\ initialBattery = AmpleBattery(graph, mileage)
    /\ pc = "start"
    /\ distances = EmptyMap /\ batteryUsed = EmptyMap /\ previous = EmptyMap
    /\ extracted = << >>
    /\ result = NoResult
    /\ earlier = << >>

SpecAmple == InitAmple /\ [][Next]_vars

\* the undirected edges a graph of SpecBudget may have, in the order added
BudgetPairs == {p \in (1..BudgetNodes) \X (1..BudgetNodes) : p[1] < p[2]}

\* the position of a pair in the order the edges are added
PairRank(p) == (p[1] - 1) * BudgetNodes + p[2]

RECURSIVE AddEdges(_, _, _)
AddEdges(g, pairs, w) ==
    IF pairs = {} THEN g
    ELSE LET p == CHOOSE q \in pairs : \A r \in pairs : PairRank(q) <= PairRank(r)
         IN  AddEdges(Graph_addEdge(g, p[1], p[2], w[p]), pairs \ {p}, w)

RECURSIVE AddNodes(_, _)
AddNodes(g, k) == IF k = 0 THEN g ELSE Graph_addNode(AddNodes(g, k - 1), k)

\* all nodes 1..BudgetNodes, then the edges of w with a weight >= 0
BudgetGraph(w) ==
    AddEdges(AddNodes(Graph, BudgetNodes), {p \in BudgetPairs : w[p] >= 0}, w)

InitBudget ==
    /\ NewHeap
    /\ \E w \in [BudgetPairs -> BudgetWeights \cup {-1}] :
          /\ Cardinality({p \in BudgetPairs : w[p] >= 0}) <= MaxBudgetEdges
          /\ graph = BudgetGraph(w)
    /\ source = 1
    /\ destination = BudgetNodes
    /\ initialBattery \in BudgetBudgets
    /\ mileage = 1
    /\ pc = "start"
    /\ distances = EmptyMap /\ batteryUsed = EmptyMap /\ previous = EmptyMap
    /\ extracted = << >>
    /\ result = NoResult
    /\ earlier = << >>

SpecBudget == InitBudget /\ [][Next]_vars

(***************************************************************************)
(* Properties of the MinHeap object (checked under SpecHeap).              *)
(***************************************************************************)
\* the node ids held in a heap array
IdsIn(h) == {h[i].nodeId : i \in 1..Len(h)}

\* the distances a heap array stores for node n
DistsOf(h, n) == {h[i].distance : i \in {j \in 1..Len(h) : h[j].nodeId = n}}

\* C3: deleteRoot on a non-empty heap returns an entry of the heap whose
\* distance is <= the distance of every entry present just before the call;
\* right after the call contains(returned nodeId) is false and size() is one
\* less than before.
C3_DeleteRootReturnsMin ==
    [][(op' = "deleteRoot" /\ heap # << >>) =>
          /\ err' = "none"
          /\ \E i \in 1..Len(heap) : heap[i] = ret'
          /\ \A i \in 1..Len(heap) : ret'.distance <= heap[i].distance
          /\ ret'.nodeId \notin DOMAIN nodeToIndex'
          /\ Len(heap') = Len(heap) - 1]_vars

\* a deleteRoot has just returned and left at least three entries behind, so
\* the last entry was moved to the root and sifted down past two children
C3_Witness ==
    /\ op = "deleteRoot" /\ err = "none" /\ ret # NoNode
    /\ Len(heap) >= 3
    /\ \E i \in 1..Len(heap) : heap[i].distance > ret.distance

\* C4: heap order holds after every public operation: for every index i > 0
\* of the heap array, heap[(i-1)/2].distance <= heap[i].distance, equal
\* distances included.
C4_HeapOrder ==
    \A i \in 1..(Len(heap) - 1) :
        heap[((i - 1) \div 2) + 1].distance <= heap[i + 1].distance

\* a decreaseKey has just lowered a key in a heap of at least three entries,
\* two of which have equal distances
C4_Witness ==
    /\ op = "decreaseKey" /\ err = "none"
    /\ Len(heap) >= 3
    /\ argNode \in IdsIn(heap) /\ DistsOf(heap, argNode) = {argDist}
    /\ \E i, j \in 1..Len(heap) : i # j /\ heap[i].distance = heap[j].distance

\* C5: the index map is consistent after every public operation: nodeToIndex
\* has exactly one key per entry of the heap array and no other key, and for
\* every key n, heap[nodeToIndex[n]].nodeId = n.
C5_IndexConsistent ==
    /\ DOMAIN nodeToIndex = IdsIn(heap)
    /\ Cardinality(DOMAIN nodeToIndex) = Len(heap)
    /\ \A n \in DOMAIN nodeToIndex :
          /\ nodeToIndex[n] \in 0..(Len(heap) - 1)
          /\ heap[nodeToIndex[n] + 1].nodeId = n

\* a deleteRoot has just removed one node of a heap of at least four, so an
\* entry was erased from the map and others were re-indexed
C5_Witness ==
    /\ op = "deleteRoot" /\ err = "none"
    /\ Len(heap) >= 3
    /\ ret.nodeId \notin DOMAIN nodeToIndex
    /\ heap[1].distance < heap[Len(heap)].distance

\* C6: addNode(n, p) on a heap that already contains n leaves the heap in the
\* state decreaseKey(n, p) produces from the same starting state, and in
\* every state each nodeId occurs at most once in the heap array.
C6_AddExistingIsDecreaseKey ==
    [][/\ (op' = "addNode" /\ argNode' \in IdsIn(heap)) =>
             LET D == decreaseKey(Obj, argNode', argDist')
             IN  heap' = D.heap /\ nodeToIndex' = D.nodeToIndex /\ err' = D.threw
       /\ Cardinality(IdsIn(heap')) = Len(heap')]_vars

\* addNode was just called for a node already queued, with a smaller
\* distance, and the node moved to the root of a heap of at least three
C6_Witness ==
    /\ op = "addNode" /\ err = "none"
    /\ Len(heap) >= 3
    /\ heap[1] = HeapNode(argNode, argDist)
    /\ \A i \in 2..Len(heap) : heap[i].distance > argDist

\* C7: decreaseKey(n, p) with n queued and p >= the stored distance of n
\* changes neither the heap array nor nodeToIndex; and the distance stored
\* for a node never increases while the node stays queued.
C7_DecreaseKeyNeverRaises ==
    [][/\ (/\ op' = "decreaseKey"
           /\ argNode' \in IdsIn(heap)
           /\ \A d \in DistsOf(heap, argNode') : argDist' >= d)
          => (heap' = heap /\ nodeToIndex' = nodeToIndex /\ err' = "none")
       /\ \A n \in IdsIn(heap) \cap IdsIn(heap') :
             \A d \in DistsOf(heap, n), e \in DistsOf(heap', n) : e <= d]_vars

\* decreaseKey was just called with a distance above the stored one for a
\* queued node, which still has its smaller distance
C7_Witness ==
    /\ op = "decreaseKey" /\ err = "none"
    /\ argNode \in IdsIn(heap)
    /\ \A d \in DistsOf(heap, argNode) : d < argDist
    /\ Len(heap) >= 2

\* C8: deleteRoot on an empty heap ends with the empty-heap error
\* (runtime_error) and decreaseKey on a node that is not queued ends with the
\* node-not-found error (invalid_argument); both leave the heap array and
\* nodeToIndex unchanged.
C8_ErrorsLeaveHeapUnchanged ==
    [][/\ (op' = "deleteRoot" /\ heap = << >>) =>
             (err' = "runtime_error" /\ heap' = heap /\ nodeToIndex' = nodeToIndex)
       /\ (op' = "decreaseKey" /\ argNode' \notin DOMAIN nodeToIndex) =>
             (err' = "invalid_argument" /\ heap' = heap /\ nodeToIndex' = nodeToIndex)]_vars

\* decreaseKey has just failed for an absent node on a non-empty heap
C8_Witness ==
    /\ op = "decreaseKey" /\ err = "invalid_argument"
    /\ Len(heap) >= 2
    /\ argNode \notin DOMAIN nodeToIndex

\* the undirected edges a graph of SpecOrder may have, in the order added:
\* from node 1 two branches, 1-2-5 and 1-3-4-5, meet at 5, which leads to 6
OrderEdges == {<<1, 2>>, <<1, 3>>, <<2, 5>>, <<3, 4>>, <<4, 5>>, <<5, 6>>}

\* all nodes 1..OrderNodes, then the edges of w with a weight >= 0
OrderGraph(w) ==
    AddEdges(AddNodes(Graph, OrderNodes), {p \in OrderEdges : w[p] >= 0}, w)

\* the graph whose addEdge calls were made in the opposite order: the same
\* nodes and edges, every neighbor list enumerated back to front
ReverseNeighbors(g) ==
    [g EXCEPT !.adjacencyList =
        [n \in DOMAIN g.adjacencyList |->
            [i \in 1..Len(g.adjacencyList[n]) |->
                g.adjacencyList[n][Len(g.adjacencyList[n]) + 1 - i]]]]

InitOrder ==
    /\ NewHeap
    /\ \E w \in [OrderEdges -> BudgetWeights \cup {-1}], back \in BOOLEAN :
          graph = IF back THEN ReverseNeighbors(OrderGraph(w)) ELSE OrderGraph(w)
    /\ source = 1
    /\ destination = OrderNodes
    /\ initialBattery \in BudgetBudgets
    /\ mileage = 1
    /\ pc = "start"
    /\ distances = EmptyMap /\ batteryUsed = EmptyMap /\ previous = EmptyMap
    /\ extracted = << >>
    /\ result = NoResult
    /\ earlier = << >>

SpecOrder == InitOrder /\ [][Next]_vars

\* the chain 1 - 2 - 3 with edge weights w12 and w23
ChainGraph(w12, w23) ==
    Graph_addEdge(Graph_addEdge(AddNodes(Graph, 3), 1, 2, w12), 2, 3, w23)

InitChain ==
    /\ NewHeap
    /\ \E w12 \in ChainWeights, w23 \in ChainWeights : graph = ChainGraph(w12, w23)
    /\ source \in {1, 2, 3}
    /\ destination \in {1, 2, 3}
    /\ initialBattery \in ChainBudgets
    /\ mileage \in ChainMileages
    /\ pc = "start"
    /\ distances = EmptyMap /\ batteryUsed = EmptyMap /\ previous = EmptyMap
    /\ extracted = << >>
    /\ result = NoResult
    /\ earlier = << >>

SpecChain == InitChain /\ [][Next]_vars

\* the caller keeps the result and calls again with the same arguments: the
\* function starts over with fresh locals
CallAgain ==
    /\ pc = "done"
    /\ earlier = << >>
    /\ earlier' = Append(earlier, result)
    /\ heap' = << >> /\ nodeToIndex' = EmptyMap /\ err' = "none"
    /\ op' = "none" /\ argNode' = 0 /\ argDist' = 0 /\ ret' = NoNode
    /\ pc' = "start"
    /\ distances' = EmptyMap /\ batteryUsed' = EmptyMap /\ previous' = EmptyMap
    /\ extracted' = << >>
    /\ result' = NoResult
    /\ UNCHANGED <<graph, source, destination, initialBattery, mileage>>

NextTwice ==
    \/ Next
    \/ CallAgain

SpecTwice == InitChain /\ [][NextTwice]_vars

(***************************************************************************)
(* A Graph object under its mutating calls; no run is in progress          *)
(* (pc = "edit").                                                          *)
(***************************************************************************)
GraphInit ==
    /\ NewHeap
    /\ graph = Graph
    /\ source = 0 /\ destination = 0 /\ initialBattery = 0 /\ mileage = 0
    /\ pc = "edit"
    /\ distances = EmptyMap /\ batteryUsed = EmptyMap /\ previous = EmptyMap
    /\ extracted = << >>
    /\ result = NoResult
    /\ earlier = << >>

\* everything but graph
notGraph == <<heap, nodeToIndex, op, argNode, argDist, ret, err,
              source, destination, initialBattery, mileage,
              pc, distances, batteryUsed, previous, extracted, result, earlier>>

GraphAddNode(id) ==
    /\ pc = "edit"
    /\ graph' = Graph_addNode(graph, id)
    /\ UNCHANGED notGraph

GraphAddEdge(from, to, weight) ==
    /\ pc = "edit"
    /\ graph' = Graph_addEdge(graph, from, to, weight)
    /\ UNCHANGED notGraph

GraphRemoveEdge(from, to) ==
    /\ pc = "edit"
    /\ graph' = Graph_removeEdge(graph, from, to)
    /\ UNCHANGED notGraph

GraphSetNodePosition(nodeId) ==
    /\ pc = "edit"
    /\ graph' = Graph_setNodePosition(graph, nodeId)
    /\ UNCHANGED notGraph

GraphNext ==
    \/ \E id \in GraphIds : GraphAddNode(id)
    \/ \E nodeId \in GraphIds : GraphSetNodePosition(nodeId)
    \/ \E from \in GraphIds, to \in GraphIds, weight \in GraphWeights :
          GraphAddEdge(from, to, weight)
    \/ \E from \in GraphIds, to \in GraphIds : GraphRemoveEdge(from, to)

SpecGraph == GraphInit /\ [][GraphNext]_vars

(***************************************************************************)
(* Properties of dijkstraWithBattery.                                      *)
(***************************************************************************)
\* the directed arcs <<from, to, weight>> the adjacency lists hold
Arcs(g) ==
    UNION {{<<u, g.adjacencyList[u][i][1], g.adjacencyList[u][i][2]>> :
                i \in 1..Len(g.adjacencyList[u])} : u \in DOMAIN g.adjacencyList}

\* max(1, floor(w / mileage)) for w >= 0
EdgeCost(w, m) == IF w \div m < 1 THEN 1 ELSE w \div m

\* one more arc appended to each walk summarised in T, within the budget;
\* a walk from s is summarised as <<end node, summed cost, summed weight>>
Extend(T, g, B, m) ==
    T \cup UNION {{<<a[2], t[2] + EdgeCost(a[3], m), t[3] + a[3]>> :
                      a \in {b \in Arcs(g) : b[1] = t[1] /\ t[2] + EdgeCost(b[3], m) <= B}} :
                  t \in T}

\* the summaries of all walks from s whose summed cost is <= B (every arc
\* costs at least 1, so such a walk has at most B arcs)
RECURSIVE WalksWithin(_, _, _, _, _)
WalksWithin(T, g, B, m, k) ==
    IF k = 0 THEN T ELSE WalksWithin(Extend(T, g, B, m), g, B, m, k - 1)

\* the total weights of the source-to-destination walks within the budget
FeasibleDistances(g, s, d, B, m) ==
    {t[3] : t \in {u \in WalksWithin({<<s, 0, 0>>}, g, B, m, B) : u[1] = d}}

Minimum(S) == CHOOSE x \in S : \A y \in S : x <= y

ValidRun ==
    /\ source # destination
    /\ hasNode(graph, source)
    /\ hasNode(graph, destination)

\* C1: for distinct existing source and destination, dijkstraWithBattery
\* returns success with totalDistance equal to the minimum total weight over
\* all source-to-destination paths whose summed cost max(1, floor(w/mileage))
\* is <= the budget, and returns the infeasible failure only when no such
\* path exists.
C1_ConstrainedOptimum ==
    (pc = "done" /\ ValidRun) =>
        LET F == FeasibleDistances(graph, source, destination, initialBattery, mileage)
        IN  IF F # {}
            THEN result.success /\ result.totalDistance = Minimum(F)
            ELSE ~result.success
                 /\ result.message = "No path exists within battery constraints"

\* C2: for budgets B1 < B2 on the same graph, endpoints and mileage, if the
\* call with B1 succeeds then the call with B2 succeeds too, with a
\* totalDistance <= the one returned with B1.
C2_BudgetMonotone ==
    (pc = "done" /\ result.success) =>
        \A B2 \in {b \in BudgetBudgets : b > initialBattery} :
            LET R2 == dijkstraWithBattery(graph, source, destination, B2, mileage).result
            IN  R2.success /\ R2.totalDistance <= result.totalDistance

\* source or destination is not a node of the graph
AbsentEndpoint == ~hasNode(graph, source) \/ ~hasNode(graph, destination)

\* no MinHeap call was made and no map was written
NothingComputed ==
    /\ op = "none" /\ heap = << >> /\ nodeToIndex = EmptyMap
    /\ distances = EmptyMap /\ batteryUsed = EmptyMap /\ previous = EmptyMap
    /\ extracted = << >>

InvalidEndpointResult ==
    /\ ~result.success
    /\ result.path = << >>
    /\ result.message = "Invalid source or destination node"

\* C9 as stated: whenever source or destination is not a node of the graph,
\* source = destination included, the call fails with the invalid-endpoint
\* status and makes no queue operation or relaxation.
C9_AbsentEndpointAlwaysFails ==
    (pc = "done" /\ AbsentEndpoint) => (InvalidEndpointResult /\ NothingComputed)

\* C9 (amended): if source # destination and one of them is not a node of
\* the graph, the call fails with the invalid-endpoint status (success =
\* false, empty path) without any queue operation or relaxation; if source =
\* destination it returns the one-node success even when that node is not in
\* the graph, again without any queue operation.
C9_AbsentEndpoint ==
    AbsentEndpoint =>
        /\ pc \in {"start", "done"}
        /\ NothingComputed
        /\ pc = "done" =>
              IF source # destination THEN InvalidEndpointResult
              ELSE result.success /\ result.path = <<source>>

\* a call between an existing source and an absent destination has returned
C9_Witness ==
    /\ pc = "done"
    /\ source # destination
    /\ hasNode(graph, source) /\ ~hasNode(graph, destination)
    /\ getNeighbors(graph, source) # << >>
    /\ InvalidEndpointResult

\* C10: on a graph with zero nodes the call (between two different node ids)
\* fails with the empty-graph status ("Graph is empty"), which is not the
\* invalid-endpoint status.
C10_EmptyGraphStatus ==
    (pc = "done" /\ getNodeCount(graph) = 0 /\ source # destination) =>
        (~result.success /\ result.message = "Graph is empty")

\* C11: when source = destination the call returns success with path =
\* <<source>>, totalDistance = 0 and totalBatteryUsed = 0, for every budget
\* and mileage, and makes no MinHeap call and writes no map on the way.
C11_TrivialPath ==
    source = destination =>
        /\ pc \in {"start", "done"}
        /\ NothingComputed
        /\ pc = "done" =>
              /\ result.success
              /\ result.path = <<source>>
              /\ result.totalDistance = 0
              /\ result.totalBatteryUsed = 0

\* a call from a node with neighbors to itself has returned
C11_Witness ==
    /\ pc = "done"
    /\ source = destination
    /\ hasNode(graph, source)
    /\ \E i \in 1..Len(getNeighbors(graph, source)) :
           getNeighbors(graph, source)[i][1] # source
    /\ result.success /\ result.path = <<source>>

\* the nodes joined to a node of S by the adjacency lists
RECURSIVE ReachFrom(_, _)
ReachFrom(g, S) ==
    LET T == S \cup {a[2] : a \in {b \in Arcs(g) : b[1] \in S}}
    IN  IF T = S THEN S ELSE ReachFrom(g, T)

\* C12: when source and destination are nodes of the graph in different
\* connected components, the call returns the infeasible result: success =
\* false, an empty path, totalDistance = 0 and totalBatteryUsed = 0.
C12_DisconnectedResult ==
    (pc = "done" /\ ValidRun /\ destination \notin ReachFrom(graph, {source})) =>
        /\ ~result.success
        /\ result.message = "No path exists within battery constraints"
        /\ result.path = << >>
        /\ result.totalDistance = 0
        /\ result.totalBatteryUsed = 0

\* the weight of the first entry for b in a's neighbor list, -1 if none
ArcWeight(g, a, b) ==
    LET l == getNeighbors(g, a)
        I == {i \in 1..Len(l) : l[i][1] = b}
    IN  IF I = {} THEN -1 ELSE l[CHOOSE i \in I : \A j \in I : i <= j][2]

\* max(1, floor(w / m)) summed over the edges of path from its i-th node on
RECURSIVE PathBattery(_, _, _, _)
PathBattery(g, path, m, i) ==
    IF i >= Len(path) THEN 0
    ELSE EdgeCost(ArcWeight(g, path[i], path[i + 1]), m) + PathBattery(g, path, m, i + 1)

\* C13: whenever the call returns success with source # destination,
\* totalBatteryUsed is the sum of max(1, floor(w/mileage)) over the edges of
\* the returned path and is <= initialBattery; and at every point of the run
\* every batteryUsed[v] other than INT_MAX is <= initialBattery.
C13_BatteryWithinBudget ==
    /\ \A v \in DOMAIN batteryUsed :
          batteryUsed[v] # IntMax => batteryUsed[v] <= initialBattery
    /\ (pc = "done" /\ result.success /\ source # destination) =>
          /\ result.totalBatteryUsed = PathBattery(graph, result.path, mileage, 1)
          /\ result.totalBatteryUsed <= initialBattery

\* a path that uses the whole budget has been returned, in a run that left a
\* neighbor of source unlabelled because the edge to it costs more than the
\* budget
C13_Witness ==
    /\ pc = "done" /\ result.success /\ source # destination
    /\ result.totalBatteryUsed = initialBattery
    /\ \E a \in Arcs(graph) :
          /\ a[1] = source /\ a[2] # source
          /\ EdgeCost(a[3], mileage) > initialBattery
          /\ batteryUsed[a[2]] = IntMax

\* C14: for a fixed graph, source, destination, budget and mileage, the order
\* in which each node's neighbors are enumerated changes neither whether the
\* call succeeds nor the totalDistance it returns: the call on the graph with
\* every neighbor list reversed agrees on both.
C14_NeighborOrderIrrelevant ==
    pc = "done" =>
        LET R2 == dijkstraWithBattery(ReverseNeighbors(graph), source, destination,
                                      initialBattery, mileage).result
        IN  /\ R2.success = result.success
            /\ result.success => R2.totalDistance = result.totalDistance

(***************************************************************************)
(* Properties of Graph.                                                    *)
(***************************************************************************)
\* C15: after any sequence of addNode, addEdge (re-adding an existing pair in
\* either argument order with another weight included) and removeEdge calls,
\* for every entry (v, w) in u's neighbor list there is an entry (u, w) with
\* the same weight in v's neighbor list.
C15_AdjacencySymmetric ==
    \A a \in Arcs(graph) : <<a[2], a[1], a[3]>> \in Arcs(graph)

(***************************************************************************)
(* More properties of dijkstraWithBattery.                                 *)
(***************************************************************************)
\* C16: on the graph with nodes {1,2,3} and edges (1,2,10), (2,3,10), the
\* call from 1 to 3 with mileage 10 returns, for budget 2, success with path
\* <<1,2,3>>, totalDistance 20 and totalBatteryUsed 2, and for budget 1 the
\* infeasible failure.
C16_ChainScenario ==
    (pc = "done" /\ graph = ChainGraph(10, 10)
        /\ source = 1 /\ destination = 3 /\ mileage = 10) =>
        /\ initialBattery = 2 =>
              /\ result.success
              /\ result.path = <<1, 2, 3>>
              /\ result.totalDistance = 20
              /\ result.totalBatteryUsed = 2
        /\ initialBattery = 1 =>
              /\ ~result.success
              /\ result.path = << >>
              /\ result.message = "No path exists within battery constraints"

\* the call of the scenario with budget 2 has returned
C16_Witness ==
    /\ pc = "done" /\ graph = ChainGraph(10, 10)
    /\ source = 1 /\ destination = 3 /\ mileage = 10 /\ initialBattery = 2
    /\ result.path = <<1, 2, 3>>
    /\ Len(extracted) = 3

\* C17: the battery charged for an edge of weight w >= 0 at mileage r > 0 is
\* exactly max(1, floor(w / r)): 1 whenever w < r, never 0.  Every labelled
\* node v differs from previous[v] in batteryUsed by exactly that amount for
\* the edge from previous[v] to v, and a successful path of k edges reports
\* totalBatteryUsed >= k.
C17_EdgeCostFloor ==
    /\ \A v \in DOMAIN previous :
          previous[v] # -1 =>
              LET w == ArcWeight(graph, previous[v], v)
                  charged == batteryUsed[v] - batteryUsed[previous[v]]
              IN  /\ w >= 0
                  /\ charged = IF w < mileage THEN 1 ELSE w \div mileage
                  /\ charged >= 1
    /\ (pc = "done" /\ result.success) =>
          result.totalBatteryUsed >= Len(result.path) - 1

\* a path of two edges has been returned whose first edge weighs less than
\* the mileage and whose second edge weighs at least twice the mileage
C17_Witness ==
    /\ pc = "done" /\ result.success
    /\ Len(result.path) = 3
    /\ ArcWeight(graph, result.path[1], result.path[2]) < mileage
    /\ ArcWeight(graph, result.path[2], result.path[3]) >= 2 * mileage

\* C18: a second call with the same graph, source, destination, budget and
\* mileage returns a result equal to the first in every field (success,
\* message, path, totalDistance, totalBatteryUsed), whether the calls succeed
\* or fail.
C18_SameResultTwice ==
    (pc = "done" /\ earlier # << >>) => result = earlier[1]

\* what a step leaves of the nodes extracted so far, the one it extracts
\* included: their three map entries as they were before the step, none of
\* them in the heap, no node extracted twice, distances in extraction order
\* non-decreasing
SettledKept ==
    /\ \A i \in 1..Len(extracted') :
          LET n == extracted'[i].nodeId
          IN  /\ n \in DOMAIN distances /\ n \in DOMAIN distances'
              /\ distances'[n] = distances[n]
              /\ batteryUsed'[n] = batteryUsed[n]
              /\ previous'[n] = previous[n]
              /\ distances'[n] = extracted'[i].distance
              /\ n \notin IdsIn(heap')
    /\ \A i \in 1..Len(extracted'), j \in 1..Len(extracted') :
          i < j => /\ extracted'[i].nodeId # extracted'[j].nodeId
                   /\ extracted'[i].distance <= extracted'[j].distance

\* C19: in a run on a graph with non-negative weights, once deleteRoot has
\* returned a node its distances, batteryUsed and previous entries are never
\* modified again and it is never put back into the heap; each node is
\* extracted at most once and the extracted distances are non-decreasing.
C19_Settledness == [][SettledKept]_vars

\* three nodes have been extracted, two of them at the same distance and
\* joined by an edge, so that a relaxation towards a settled node was tried
C19_Witness ==
    /\ pc = "done"
    /\ Len(extracted) = 3
    /\ \E i \in 1..2 :
          /\ extracted[i].distance = extracted[i + 1].distance
          /\ ArcWeight(graph, extracted[i + 1].nodeId, extracted[i].nodeId) = 0

\* the weights of the edges of path from its i-th node on, summed
RECURSIVE PathWeight(_, _, _)
PathWeight(g, path, i) ==
    IF i >= Len(path) THEN 0
    ELSE ArcWeight(g, path[i], path[i + 1]) + PathWeight(g, path, i + 1)

\* C20: whenever the call returns success with source # destination (the
\* weights being non-negative), the returned path starts with source, ends
\* with destination, holds no node twice, every consecutive pair (a, b) of it
\* has an entry for b in a's neighbor list, and the weights of those entries
\* sum to totalDistance.
C20_PathValid ==
    (pc = "done" /\ result.success /\ source # destination) =>
        LET path == result.path
        IN  /\ Len(path) >= 2
            /\ path[1] = source
            /\ path[Len(path)] = destination
            /\ \A i \in 1..Len(path), j \in 1..Len(path) : i # j => path[i] # path[j]
            /\ \A i \in 1..(Len(path) - 1) :
                  \E k \in 1..Len(getNeighbors(graph, path[i])) :
                      getNeighbors(graph, path[i])[k][1] = path[i + 1]
            /\ PathWeight(graph, path, 1) = result.totalDistance

\* a path of two edges of positive total weight has been returned, one of
\* whose edges has different weights in the two neighbor lists
C20_Witness ==
    /\ pc = "done" /\ result.success
    /\ Len(result.path) = 3
    /\ result.totalDistance > 0
    /\ \E i \in 1..2 :
          ArcWeight(graph, result.path[i], result.path[i + 1])
              # ArcWeight(graph, result.path[i + 1], result.path[i])

\* the three outcomes of a call
PathFound == result.success

Infeasible ==
    ~result.success /\ result.message = "No path exists within battery constraints"

InvalidInput ==
    ~result.success /\ result.message = "Invalid source or destination node"

\* the stretches a run still has before it, at most: one pass of the loop
\* per node not yet extracted, the loop exit, the reconstruction
StretchesLeft ==
    CASE pc = "start" -> getNodeCount(graph) + 3
      [] pc = "loop" -> (getNodeCount(graph) - Len(extracted)) + 2
      [] pc = "reconstruct" -> 1
      [] OTHER -> 0

\* where a run may be, and what it has returned when it is over
RunShape ==
    /\ pc \in {"start", "loop", "reconstruct", "done"}
    /\ Len(extracted) <= getNodeCount(graph)
    /\ \A i \in 1..Len(extracted), j \in 1..Len(extracted) :
          i # j => extracted[i].nodeId # extracted[j].nodeId
    /\ StretchesLeft >= 0
    /\ pc = "done" =>
          /\ PathFound \/ Infeasible \/ InvalidInput
          /\ ~(PathFound /\ Infeasible) /\ ~(PathFound /\ InvalidInput)
          /\ ~(Infeasible /\ InvalidInput)
    /\ (pc = "reconstruct" /\ distances[destination] # IntMax) =>
          LET w == walk(previous, destination, Cardinality(DOMAIN previous) + 1)
          IN  w # << >> /\ w[1] = source

\* C21: every run on a finite graph with non-negative weights terminates,
\* after at most one extraction per node, in exactly one of the outcomes
\* PathFound, Infeasible, InvalidInput: the run is always at the start, in
\* the loop, in the reconstruction or returned (no exception, no endless
\* predecessor walk), where one of Begin, Iterate, LoopExit, Reconstruct
\* can be taken unless it has returned; and every stretch lowers the bound
\* StretchesLeft on what is still to do, so the return comes after at most
\* getNodeCount + 3 stretches.
C21_Terminates ==
    /\ []RunShape
    /\ [][StretchesLeft' < StretchesLeft]_vars

\* a run has returned PathFound after extracting every node of a graph of
\* three nodes
C21_Witness ==
    /\ pc = "done" /\ PathFound
    /\ getNodeCount(graph) = 3
    /\ Len(extracted) = 3
    /\ Len(result.path) = 3

\* C22: in every run on a graph built through addNode/addEdge the solver
\* never calls deleteRoot on an empty heap and never calls decreaseKey for a
\* node that is not in the heap: no MinHeap call of a run ends with an
\* exception, and deleteRoot always returns a node.
C22_NoQueueError ==
    /\ err = "none"
    /\ pc # "threw"
    /\ op = "deleteRoot" => ret # NoNode
    /\ op = "decreaseKey" => argNode \in IdsIn(heap)

\* the loop has just lowered the key of a node in the heap
C22_Witness ==
    /\ pc = "loop"
    /\ op = "decreaseKey"
    /\ Len(extracted) = 2
    /\ err = "none"

\* one pass of the loop of the variant that ignores the break at d
iterationToEmpty(R, g, B, m) ==
    IF isEmpty(R.H) THEN [R EXCEPT !.pc = "reconstruct"]
    ELSE LET current == deleteRootValue(R.H)
             R1 == [R EXCEPT !.H = deleteRoot(R.H), !.op = "deleteRoot",
                             !.argNode = 0, !.argDist = 0, !.ret = current,
                             !.extracted = Append(R.extracted, current)]
         IN  relaxAll(R1, current.nodeId, getNeighbors(g, current.nodeId),
                      1, B, m)

\* the loop of the variant, cut after fuel passes
RECURSIVE runToEmpty(_, _, _, _, _)
runToEmpty(R, g, B, m, fuel) ==
    IF R.pc # "loop" \/ R.H.threw # "none" \/ fuel = 0 THEN R
    ELSE runToEmpty(iterationToEmpty(R, g, B, m),
                    g, B, m, fuel - 1)

\* the result of the variant; none if its loop has not ended after one pass
\* per node and one more
resultToEmpty(g, s, d, B, m) ==
    LET R == runToEmpty(begin(g, s, d), g, B, m,
                        getNodeCount(g) + 1)
    IN  IF R.pc = "reconstruct" THEN reconstruct(R, d).result
        ELSE IF R.pc = "done" THEN R.result
        ELSE NoResult

\* C23: on a graph with non-negative weights the success flag, totalDistance
\* and totalBatteryUsed the call returns (it stops when destination is
\* extracted) are those of the variant of the same loop that ignores the
\* break and runs until the heap is empty.
C23_EarlyExitHarmless ==
    (pc = "done" /\ ValidRun) =>
        LET R2 == resultToEmpty(graph, source, destination, initialBattery, mileage)
        IN  /\ R2.success = result.success
            /\ result.success =>
                  /\ R2.totalDistance = result.totalDistance
                  /\ R2.totalBatteryUsed = result.totalBatteryUsed

\* the call has stopped at destination with a node left in the heap whose
\* label the variant goes on to lower through destination
C23_Witness ==
    /\ pc = "done" /\ result.success /\ ValidRun
    /\ \E i \in 1..Len(heap) :
          LET w == ArcWeight(graph, destination, heap[i].nodeId)
          IN  /\ w >= 0
              /\ result.totalDistance + w < heap[i].distance
              /\ result.totalBatteryUsed + EdgeCost(w, mileage) <= initialBattery

\* one round of the classical relaxation: each node takes the least of its
\* distance and the distance of a neighbor plus the weight of the arc from it
Shorten(dist, g) ==
    [v \in DOMAIN dist |->
        Minimum({dist[v]} \cup {dist[a[1]] + a[3] :
                    a \in {b \in Arcs(g) : b[2] = v /\ b[1] \in DOMAIN dist
                                            /\ dist[b[1]] # IntMax}})]

RECURSIVE ShortenTimes(_, _, _)
ShortenTimes(dist, g, k) ==
    IF k = 0 THEN dist ELSE ShortenTimes(Shorten(dist, g), g, k - 1)

\* the classical unconstrained shortest-path distance from s to d, IntMax if
\* there is no path
ShortestDistance(g, s, d) ==
    LET ids == {g.nodes[i] : i \in 1..Len(g.nodes)}
        dist0 == [n \in ids |-> IF n = s THEN 0 ELSE IntMax]
    IN  ShortenTimes(dist0, g, Cardinality(ids))[d]

\* the sum of max(1, floor(w/m)) over the undirected edges of g, an edge
\* whose two sides differ counted at the larger
RECURSIVE SumEdgeCost(_, _, _)
SumEdgeCost(g, pairs, m) ==
    IF pairs = {} THEN 0
    ELSE LET p == CHOOSE q \in pairs : TRUE
             C == {EdgeCost(a[3], m) : a \in {b \in Arcs(g) : {b[1], b[2]} = {p[1], p[2]}}}
         IN  (CHOOSE c \in C : \A x \in C : x <= c) + SumEdgeCost(g, pairs \ {p}, m)

BudgetNeverBinds ==
    initialBattery >=
        SumEdgeCost(graph, {<<a[1], a[2]>> : a \in {b \in Arcs(graph) : b[1] <= b[2]}}, mileage)

\* C24: when the budget can never bind (initialBattery >= the sum of
\* max(1, floor(w/mileage)) over all edges of the graph), the call on a graph
\* with non-negative weights succeeds exactly when destination is reachable
\* from source, and its totalDistance is the classical unconstrained
\* shortest-path distance.
C24_AmpleBudgetIsDijkstra ==
    (pc = "done" /\ ValidRun /\ BudgetNeverBinds) =>
        /\ result.success <=> destination \in ReachFrom(graph, {source})
        /\ result.success =>
              result.totalDistance = ShortestDistance(graph, source, destination)

\* with an ample budget the call has returned a path of two edges that is
\* shorter than the edge from source to destination
C24_Witness ==
    /\ pc = "done" /\ result.success /\ BudgetNeverBinds
    /\ Len(result.path) = 3
    /\ ArcWeight(graph, source, destination) > result.totalDistance

(***************************************************************************)
(* More properties of Graph.                                               *)
(***************************************************************************)
\* the ids in the nodes vector
NodeIdsOf(g) == {g.nodes[i] : i \in 1..Len(g.nodes)}

NodesDistinct(g) ==
    \A i \in 1..Len(g.nodes), j \in 1..Len(g.nodes) : i # j => g.nodes[i] # g.nodes[j]

NeighborsExist(g) == \A a \in Arcs(g) : a[2] \in NodeIdsOf(g)

\* C25 as stated: after any sequence of addNode, addEdge, removeEdge and
\* setNodePosition calls, removeEdge on ids never added included, the key set
\* of adjacencyList equals the set of ids in nodes, nodes holds each id at
\* most once, and every neighbor id in an adjacency list is an existing node.
C25_KeysAreNodes ==
    /\ DOMAIN graph.adjacencyList = NodeIdsOf(graph)
    /\ NodesDistinct(graph)
    /\ NeighborsExist(graph)

\* C25 (amended): after any such sequence every id in nodes is a key of
\* adjacencyList, every other key (left by removeEdge on an id that is not a
\* node) has an empty neighbor list, nodes holds each id at most once, and
\* every neighbor id in an adjacency list is an existing node.
C25_NodesAreKeys ==
    /\ NodeIdsOf(graph) \subseteq DOMAIN graph.adjacencyList
    /\ \A k \in DOMAIN graph.adjacencyList :
          k \notin NodeIdsOf(graph) => graph.adjacencyList[k] = << >>
    /\ NodesDistinct(graph)
    /\ NeighborsExist(graph)

\* one node with a self-edge, beside a key of adjacencyList that is not a
\* node
C25_Witness ==
    /\ pc = "edit"
    /\ Len(graph.nodes) = 1
    /\ Arcs(graph) # {}
    /\ DOMAIN graph.adjacencyList # NodeIdsOf(graph)

====
